---- MODULE Spec2Model ----
(***************************************************************************)
(* Session routing and state synchronisation core of the Hello3DLLM MCP    *)
(* server (server.js): the WebSocket connection registry wsClients, the    *)
(* per-session command router, the AsyncLocalStorage request context, the  *)
(* pending state-query table and the per-session state cache.              *)
(*                                                                         *)
(* The server runs on one event loop: every action below is one callback   *)
(* (a WebSocket event, a timer, an HTTP request step) run to completion,   *)
(* together with the promise continuations it releases.  `sent` and        *)
(* `returned` are the outputs of the callback that ran last: the messages  *)
(* it handed to ws.send() and the tool results it returned.                *)
(***************************************************************************)
EXTENDS Integers, Sequences, FiniteSets, TLC

(* ------------------------------ bounds -------------------------------- *)
\* WebSocket handles the server accepts during a run
NumConns == 2
\* MCP requests in flight at the same time
NumReqs == 2
\* state queries issued during a run (request ids generated)
MaxQueries == 2
\* distinct scene-state payloads a browser reports
NumStates == 2
\* get_* tool calls in flight at the same time where one call is studied
NumCalls == 1
\* routed messages handed to the sockets where their delivery is followed
MaxSends == 3

\* WebSocket objects and setTimeout timers of one page that are alive at
\* the same time
MaxSockets == 3

Conns == 1..NumConns
Reqs == 1..NumReqs
RequestIds == 1..MaxQueries
States == 1..NumStates
\* session ids carried by mcp-session-id headers and registerSession messages
Sessions == {"s1", "s2"}
\* null / undefined where a string is expected
Null == "null"
\* wsClients.get() of an absent key
NoConn == 0
\* this.ws = null
NoSock == 0
\* this.pollingInterval = null
NoInterval == 0

\* the settings of the WebSocketClient constructor, delays in milliseconds
maxReconnectAttempts == 10
reconnectDelay == 1000
pollingDelay == 5000
maxInitialAttempts == 3
initialAttemptDelay == 500

\* the WebSocket objects of the page
Socks == 1..MaxSockets
\* Math.min
Min(a, b) == IF a <= b THEN a ELSE b

\* const delay = this.reconnectDelay * Math.min(this.reconnectAttempts, 5)
reconnectDelayOf(attempt) == reconnectDelay * Min(attempt, 5)

\* the delays the client passes to setTimeout
Delays ==
  {initialAttemptDelay} \cup {reconnectDelayOf(n) : n \in 1..maxReconnectAttempts}
\* sessionStateCache.get() of an absent key; a missing state field
NoState == 0

\* WebSocket.readyState: a handle not yet accepted, OPEN (1), no longer
\* open with its 'close' event still to be dispatched, close dispatched
ReadyStates == {"none", "open", "closing", "closed"}

VARIABLES
  isStdioMode,          \* !process.stdin.isTTY, fixed at start-up
  transports,           \* session ids with a registered MCP transport
  readyState,           \* readyState of each WebSocket handle
  sessionId,            \* the `let sessionId` of each connection's closure
  wsClients,            \* Map<sessionId, WebSocket>
  req,                  \* the MCP requests in flight and where each stands
  pendingStateQueries,  \* request ids with an entry {resolve, reject, timeout}
  timers,               \* request ids whose setTimeout timer is armed
  nextRid,              \* request ids generated so far, plus one
  sessionStateCache,    \* Map<sessionId, {state, timestamp}>, the state
  sent,                 \* per connection, the messages ws.send() was given
                        \* by the callback that ran last
  returned,             \* per request, the result the callback that ran
                        \* last returned to the MCP client
  settleCalls,          \* history: resolve/reject invocations per request id
  lastRecorded,         \* history: last state recorded for each session
  wire,                 \* per connection, the routed messages ws.send() was
                        \* given and the browser has not received yet, each
                        \* named by its rank among the sendToSession calls
  issued,               \* history: sendToSession calls that sent, so far
  received,             \* history: per connection, the rank of the message
                        \* its browser received last
  clientWs,             \* WebSocketClient: this.ws, the handle it created last
  isConnecting,         \* WebSocketClient: this.isConnecting
  clientOpen,           \* this.ws.readyState === WebSocket.OPEN, as the page
                        \* sees it: between its onopen and its onclose
  connectDue,           \* a connect() call is due: the one of _setupWebSocket
                        \* or the one a timer of the client was set for
  clientSent,           \* the messages the client's callback that ran last
                        \* gave to this.ws.send()
  handled,              \* the type of the command the Application's handler
                        \* map applied in that callback (Null: none)
  registrant,           \* history: per session id, the connection whose
                        \* registerSession for it was handled last
  lastUrl,              \* history: per MCP client (its mcp-session-id, Null
                        \* for the one on stdin), the session id in the URL
                        \* get_browser_connection_url returned to it last
  ws,                   \* WebSocketClient: this.ws, among the WebSocket
                        \* objects the page created (NoSock: null)
  socket,               \* where each WebSocket object of the page stands
  reconnectAttempts,    \* WebSocketClient: this.reconnectAttempts
  serverAvailable,      \* WebSocketClient: this.serverAvailable
  pollingMode,          \* WebSocketClient: this.pollingMode
  pollingInterval,      \* WebSocketClient: this.pollingInterval, as the
                        \* period of the interval (Null: none is set)
  initialConnectionAttempts,  \* this.initialConnectionAttempts
  timeouts,             \* the pending setTimeout timers of the client:
                        \* how many there are of each delay
  serverUp,             \* the WebSocket server accepts connections
  appCalls              \* history: the method of the client the page
                        \* called last ("none": none so far)

vars == << isStdioMode, transports, readyState, sessionId, wsClients, req,
           pendingStateQueries, timers, nextRid, sessionStateCache, sent,
           returned, settleCalls, lastRecorded, wire, issued, received,
           clientWs, isConnecting, clientOpen, connectDue, clientSent,
           handled, registrant, lastUrl, ws, socket, reconnectAttempts,
           serverAvailable, pollingMode, pollingInterval,
           initialConnectionAttempts, timeouts, serverUp, appCalls >>

connVars == << readyState, sessionId, wsClients, registrant >>
queryVars == << pendingStateQueries, timers, nextRid, settleCalls >>
cacheVars == << sessionStateCache, lastRecorded >>
\* the browser page behind a socket: its WebSocketClient and Application
\* the retry logic of the WebSocketClient and the sockets it created
retryVars == << ws, socket, reconnectAttempts, serverAvailable, pollingMode,
                pollingInterval, initialConnectionAttempts, timeouts,
                serverUp, appCalls >>
clientVars == << clientWs, isConnecting, clientOpen, connectDue, clientSent,
                 handled, retryVars >>
\* what lies beyond the registry, the requests, the queries and the cache:
\* the frames under way, the browser page, the URLs handed out
socketVars == << wire, issued, received, clientVars, lastUrl >>

(* ------------------------ messages and results ------------------------ *)
\* a message handed to ws.send(); `str` and `num` are its payload, `by` is
\* the mcp-session-id header of the MCP request whose handler emitted it
\* (Null for a reply to the browser and for a request read from stdin)
Msg(type, str, num, by) == [type |-> type, str |-> str, num |-> num, by |-> by]

\* no ws.send() call in the callback
NothingSent == [c \in Conns |-> << >>]

\* a request slot: session is the mcp-session-id header, store the
\* AsyncLocalStorage store of its asynchronous context, tool the tool called;
\* of the get_* handler, sid is its local sessionId, force its forceRefresh
\* argument and rid the request id its getState call awaits
IdleReq == [pc |-> "idle", session |-> Null, store |-> Null, tool |-> Null,
            force |-> FALSE, sid |-> Null, rid |-> 0]

\* the result a request was answered with
NoResult == [kind |-> "none", val |-> NoState, err |-> Null, sid |-> Null,
             force |-> FALSE]
Result(kind, val, err, sid, force) ==
  [kind |-> kind, val |-> val, err |-> err, sid |-> sid, force |-> force]

\* no request answered in the callback
NothingReturned == [r \in Reqs |-> NoResult]

(* ------------------------------ routing ------------------------------- *)
\* sendToSession without the readyState test
sendToSessionOk_anyState(s) ==
  /\ s \in Sessions
  /\ wsClients[s] # NoConn

\* sendToSession's test: wsClients.get(sessionId) exists and is OPEN
sendToSessionOk(s) ==
  /\ s \in Sessions
  /\ wsClients[s] # NoConn
  /\ readyState[wsClients[s]] = "open"

\* sendToSession: the messages sent by the callback after the call
sendToSession(log, s, m) ==
  IF sendToSessionOk(s)
  THEN [log EXCEPT ![wsClients[s]] = Append(@, m)]
  ELSE log

\* wsClients.size
wsClientsSize == Cardinality({s \in Sessions : wsClients[s] # NoConn})

RECURSIVE AppendTimes(_, _, _)
AppendTimes(q, m, n) == IF n = 0 THEN q ELSE AppendTimes(Append(q, m), m, n - 1)

\* broadcastToClients: wsClients.forEach sends once per map ENTRY whose
\* socket is OPEN
broadcastToClients(log, m) ==
  [c \in Conns |->
     IF readyState[c] = "open"
     THEN AppendTimes(log[c], m, Cardinality({s \in Sessions : wsClients[s] = c}))
     ELSE log[c]]

\* a module-level variable in place of the AsyncLocalStorage: setting it
\* for one request sets it for every request in flight
sessionContextRun_moduleVariable(rqs, r, value) ==
  [p \in Reqs |->
     IF p = r \/ rqs[p].pc # "idle" THEN [rqs[p] EXCEPT !.store = value]
     ELSE rqs[p]]

\* sessionContext.run(value, fn): the asynchronous context of request r,
\* in which fn runs, gets the store `value`
sessionContextRun(rqs, r, value) == [rqs EXCEPT ![r].store = value]

\* sessionContext.getStore() evaluated in the asynchronous context of r
getStore(r) == req[r].store

\* a router without the STDIO fallback: no session context, no delivery
routeToCurrentSession_noFallback(log, r, m) ==
  IF getStore(r) # Null THEN sendToSession(log, getStore(r), m) ELSE log

\* the legacy router: every tool handler broadcasts
routeToCurrentSession_broadcast(log, r, m) == broadcastToClients(log, m)

\* routeToCurrentSession: the messages sent after the call made by request r
routeToCurrentSession(log, r, m) ==
  IF getStore(r) # Null THEN sendToSession(log, getStore(r), m)
  ELSE IF isStdioMode
       THEN IF wsClientsSize > 0 THEN broadcastToClients(log, m) ELSE log
       ELSE log

(* ------------------------------- Init --------------------------------- *)
\* the page after new WebSocketClient(...): no socket yet, the connect()
\* call of _setupWebSocket still to run
ClientInit ==
  /\ clientWs = NoConn
  /\ isConnecting = FALSE
  /\ clientOpen = FALSE
  /\ connectDue = TRUE
  /\ clientSent = << >>
  /\ handled = Null
  /\ ws = NoSock
  /\ socket = [k \in Socks |-> "none"]
  /\ reconnectAttempts = 0
  /\ serverAvailable = FALSE
  /\ pollingMode = FALSE
  /\ pollingInterval = NoInterval
  /\ initialConnectionAttempts = 0
  /\ timeouts = [d \in Delays |-> 0]
  /\ serverUp = FALSE
  /\ appCalls = "none"

Init ==
  /\ isStdioMode \in BOOLEAN
  /\ transports = {}
  /\ readyState = [c \in Conns |-> "none"]
  /\ sessionId = [c \in Conns |-> Null]
  /\ wsClients = [s \in Sessions |-> NoConn]
  /\ req = [r \in Reqs |-> IdleReq]
  /\ pendingStateQueries = {}
  /\ timers = {}
  /\ nextRid = 1
  /\ sessionStateCache = [s \in Sessions |-> NoState]
  /\ sent = NothingSent
  /\ returned = NothingReturned
  /\ settleCalls = [q \in RequestIds |-> 0]
  /\ lastRecorded = [s \in Sessions |-> NoState]
  /\ wire = [c \in Conns |-> << >>]
  /\ issued = 0
  /\ received = [c \in Conns |-> 0]
  /\ ClientInit
  /\ registrant = [s \in Sessions |-> NoConn]
  /\ lastUrl = [h \in Sessions \cup {Null} |-> Null]

\* a callback that sends nothing and answers no request
NoOutput == sent' = NothingSent /\ returned' = NothingReturned

(* ----------------------- WebSocket connections ------------------------ *)
\* wss.on('connection'): a browser connects; sessionId = null
WsConnection(c) ==
  /\ readyState[c] = "none"
  /\ \A d \in Conns : d < c => readyState[d] # "none"
  /\ readyState' = [readyState EXCEPT ![c] = "open"]
  /\ sessionId' = [sessionId EXCEPT ![c] = Null]
  /\ NoOutput
  /\ UNCHANGED << socketVars, isStdioMode, transports, wsClients, registrant,
                  req, queryVars, cacheVars >>

\* the socket leaves OPEN (peer went away, close frame received); the
\* 'close' event has not been dispatched yet
WsLeaveOpen(c) ==
  /\ readyState[c] = "open"
  /\ readyState' = [readyState EXCEPT ![c] = "closing"]
  /\ NoOutput
  /\ UNCHANGED << socketVars, isStdioMode, transports, sessionId, wsClients,
                  registrant, req, queryVars, cacheVars >>

(* ------------------- completion of a getState call --------------------- *)
\* getState answering a resolved query with what the cache holds
getStateResolved_fromCache(rq, state) ==
  Result("live", sessionStateCache[rq.sid], Null, rq.sid, rq.force)

\* getState(sid, force) after its live query resolved with `state`
getStateResolved(rq, state) == Result("live", state, Null, rq.sid, rq.force)

\* getState swallowing the error and returning an empty state
getStateRejected_emptyState(rq, cache, err) ==
  Result("live", NoState, Null, rq.sid, rq.force)

\* getState without the catch of its forceRefresh branch
getStateRejected_noCatch(rq, cache, err) ==
  Result("error", NoState, err, rq.sid, rq.force)

\* getState(sid, force) after its live query rejected with `err`, the cache
\* being `cache`: the forceRefresh branch catches and falls back to the
\* cache; the plain branch lets the error reach the tool handler's catch
getStateRejected(rq, cache, err) ==
  IF rq.force /\ cache[rq.sid] # NoState
  THEN Result("fallback", cache[rq.sid], Null, rq.sid, rq.force)
  ELSE Result("error", NoState, err, rq.sid, rq.force)

\* the requests suspended on a request id of `rids`
Awaiting(rids) == {r \in Reqs : req[r].pc = "waiting" /\ req[r].rid \in rids}

\* the request slots after the requests of `rs` were answered
Answered(rs) == [r \in Reqs |-> IF r \in rs THEN IdleReq ELSE req[r]]

\* the results returned after reject(err) was called for every id in `rids`
RejectAll(rids, cache, err) ==
  [r \in Reqs |->
     IF r \in Awaiting(rids) THEN getStateRejected(req[r], cache, err)
     ELSE NoResult]

\* history: one more resolve/reject invocation for each request id in rids
CountSettle(rids) ==
  [q \in RequestIds |-> IF q \in rids THEN settleCalls[q] + 1 ELSE settleCalls[q]]

(* ------------------- ws.on('message') and ws.on('close') -------------- *)
\* a registry that keeps the connection a session id already has
wsClientsSet_keepFirst(s, c) ==
  IF wsClients[s] # NoConn THEN wsClients ELSE [wsClients EXCEPT ![s] = c]

\* wsClients.set(sessionId, ws)
wsClientsSet(s, c) == [wsClients EXCEPT ![s] = c]

\* {type:'registerSession', sessionId:s}
WsRegisterSession(c, s) ==
  /\ readyState[c] = "open"
  /\ sessionId' = [sessionId EXCEPT ![c] = s]
  /\ wsClients' = wsClientsSet(s, c)
  /\ registrant' = [registrant EXCEPT ![s] = c]
  /\ sent' = [NothingSent EXCEPT ![c] = << Msg("sessionRegistered", s, 0, Null) >>]
  /\ returned' = NothingReturned
  /\ UNCHANGED << socketVars, isStdioMode, transports, readyState, req, queryVars,
                  cacheVars >>

\* a handler that only logs the message of an unregistered sender
replyNotRegistered_silent(c) == NothingSent

\* the reply of the final else branch: the sender has not registered
replyNotRegistered(c) == [NothingSent EXCEPT ![c] = << Msg("error", Null, 0, Null) >>]

\* the legacy handler: a client's message is broadcast to all clients
logRegisteredMessage_legacyBroadcast(c) ==
  broadcastToClients(NothingSent, Msg("command", Null, 0, Null))

\* the `else if (sessionId)` branch: the message of a registered sender is
\* logged and forwarded to nobody
logRegisteredMessage(c) == NothingSent

\* a message of another type, or registerSession without a sessionId:
\* logged when the sender is registered, answered with error otherwise
WsOtherMessage(c) ==
  /\ readyState[c] = "open"
  /\ sent' = IF sessionId[c] # Null THEN logRegisteredMessage(c)
             ELSE replyNotRegistered(c)
  /\ returned' = NothingReturned
  /\ UNCHANGED << socketVars, isStdioMode, transports, connVars, req, queryVars,
                  cacheVars >>

\* a message JSON.parse rejects: the catch logs it
WsMalformed(c) ==
  /\ readyState[c] = "open"
  /\ NoOutput
  /\ UNCHANGED << socketVars, isStdioMode, transports, connVars, req, queryVars,
                  cacheVars >>

\* a cache that keeps the entry it has
cacheSet_keepFirst(cache, s, st) ==
  IF cache[s] # NoState THEN cache ELSE [cache EXCEPT ![s] = st]

\* sessionStateCache.set(sessionId, {state, timestamp})
cacheSet(cache, s, st) == [cache EXCEPT ![s] = st]

\* a stateUpdate handler without the test of data.state
stateUpdateRecords_always(st) == TRUE

\* the stateUpdate handler's test: data.type === 'stateUpdate' && data.state
stateUpdateRecords(st) == st # NoState

\* {type:'stateUpdate', state:st, timestamp}; st = NoState: no state field
WsStateUpdate(c, st) ==
  /\ readyState[c] = "open"
  /\ returned' = NothingReturned
  /\ IF sessionId[c] = Null
     THEN /\ sent' = replyNotRegistered(c)
          /\ UNCHANGED cacheVars
     ELSE /\ sent' = NothingSent
          /\ IF stateUpdateRecords(st)
             THEN /\ sessionStateCache' =
                        cacheSet(sessionStateCache, sessionId[c], st)
                  /\ lastRecorded' = [lastRecorded EXCEPT ![sessionId[c]] = st]
             ELSE UNCHANGED cacheVars
  /\ UNCHANGED << socketVars, isStdioMode, transports, connVars, req, queryVars >>

\* a handler that completes whatever query is pending
matchingQueries_anyPending(q) == pendingStateQueries

\* the pending entries a stateResponse / stateError with request id q finds
matchingQueries(q) == IF q \in pendingStateQueries THEN {q} ELSE {}

\* the cache after queryStateFromBrowser resumed with `st` in the requests rs
cacheLiveResult(cache, rs, st) ==
  [s \in Sessions |->
     IF \E r \in rs : req[r].sid = s THEN st ELSE cache[s]]

\* {type:'stateResponse', requestId:q, state:st}
WsStateResponse(c, q, st) ==
  /\ readyState[c] = "open"
  /\ IF sessionId[c] = Null
     THEN /\ sent' = replyNotRegistered(c)
          /\ returned' = NothingReturned
          /\ UNCHANGED << req, queryVars, cacheVars >>
     ELSE LET found == matchingQueries(q)
              rs == Awaiting(found)
          IN /\ sent' = NothingSent
             /\ pendingStateQueries' = pendingStateQueries \ found
             /\ timers' = timers \ found
             /\ settleCalls' = CountSettle(found)
             /\ returned' = [r \in Reqs |->
                               IF r \in rs THEN getStateResolved(req[r], st)
                               ELSE NoResult]
             /\ req' = Answered(rs)
             /\ sessionStateCache' = cacheLiveResult(sessionStateCache, rs, st)
             /\ lastRecorded' = cacheLiveResult(lastRecorded, rs, st)
             /\ UNCHANGED nextRid
  /\ UNCHANGED << socketVars, isStdioMode, transports, connVars >>

\* the browser's error text in stateError{requestId, error}
BrowserError == "browserError"

\* {type:'stateError', requestId:q, error}
WsStateError(c, q) ==
  /\ readyState[c] = "open"
  /\ IF sessionId[c] = Null
     THEN /\ sent' = replyNotRegistered(c)
          /\ returned' = NothingReturned
          /\ UNCHANGED << req, queryVars >>
     ELSE LET found == matchingQueries(q) IN
          /\ sent' = NothingSent
          /\ pendingStateQueries' = pendingStateQueries \ found
          /\ timers' = timers \ found
          /\ settleCalls' = CountSettle(found)
          /\ returned' = RejectAll(found, sessionStateCache, BrowserError)
          /\ req' = Answered(Awaiting(found))
          /\ UNCHANGED nextRid
  /\ UNCHANGED << socketVars, isStdioMode, transports, connVars, cacheVars >>

\* ws.on('close') without its clearTimeout
closeClearsTimers_none(rids) == timers

\* the timers left armed after ws.on('close') walked the entries `rids`:
\* clearTimeout(query.timeout) for each
closeClearsTimers(rids) == timers \ rids

\* the session ids whose cache entry ws.on('close') of connection c deletes
closeCacheKeys(c) == {sessionId[c]}

\* the pending entries ws.on('close') rejects
closeRejects(c) == pendingStateQueries

\* ws.on('close'): unregister, drop the cache entry, reject pending queries;
\* no callback of the connection runs afterwards, so its closure is dropped
WsClose(c) ==
  /\ readyState[c] = "closing"
  /\ readyState' = [readyState EXCEPT ![c] = "closed"]
  /\ sent' = NothingSent
  /\ IF sessionId[c] # Null
     THEN LET cache == [s \in Sessions |->
                          IF s \in closeCacheKeys(c) THEN NoState
                          ELSE sessionStateCache[s]]
              rids == closeRejects(c)
          IN /\ wsClients' = [wsClients EXCEPT ![sessionId[c]] = NoConn]
             /\ sessionStateCache' = cache
             /\ timers' = closeClearsTimers(rids)
             /\ pendingStateQueries' = pendingStateQueries \ rids
             /\ settleCalls' = CountSettle(rids)
             /\ returned' = RejectAll(rids, cache, "disconnected")
             /\ req' = Answered(Awaiting(rids))
     ELSE /\ returned' = NothingReturned
          /\ UNCHANGED << wsClients, sessionStateCache, timers,
                          pendingStateQueries, settleCalls, req >>
  /\ sessionId' = [sessionId EXCEPT ![c] = Null]
  /\ UNCHANGED << socketVars, isStdioMode, transports, nextRid, lastRecorded,
                  registrant >>

\* a timer callback that leaves the entry in the table
timeoutDeletes_nothing(q) == pendingStateQueries

\* the setTimeout callback's pendingStateQueries.delete(requestId)
timeoutDeletes(q) == pendingStateQueries \ {q}

\* the setTimeout callback of waitForStateResponse(q): delete the entry and
\* reject; a promise that is already settled ignores the reject
StateQueryTimeout(q) ==
  /\ q \in timers
  /\ timers' = timers \ {q}
  /\ pendingStateQueries' = timeoutDeletes(q)
  /\ settleCalls' = CountSettle({q})
  /\ returned' = RejectAll({q}, sessionStateCache, "timeout")
  /\ req' = Answered(Awaiting({q}))
  /\ sent' = NothingSent
  /\ UNCHANGED << socketVars, isStdioMode, transports, connVars, nextRid, cacheVars >>

(* --------------------------- MCP requests ----------------------------- *)
\* a free slot for an arriving request; the lowest one is taken
FreeSlot(r) ==
  /\ req[r].pc = "idle"
  /\ \A p \in Reqs : p < r => req[p].pc # "idle"

Tools == {"command", "getState"}

\* app.post('/mcp'), initialize request: with no session id the transport
\* gets a randomUUID(), with an unknown one it is re-created under that id;
\* onsessioninitialized stores it
McpInitialize(s) ==
  /\ ~isStdioMode
  /\ s \notin transports
  /\ transports' = transports \cup {s}
  /\ NoOutput
  /\ UNCHANGED << socketVars, isStdioMode, connVars, req, queryVars, cacheVars >>

\* transport.onclose: delete transports[sid]
McpTransportClose(s) ==
  /\ ~isStdioMode
  /\ s \in transports
  /\ transports' = transports \ {s}
  /\ NoOutput
  /\ UNCHANGED << socketVars, isStdioMode, connVars, req, queryVars, cacheVars >>

\* a notification sent the legacy way, to every registered connection
toolCallNotification_broadcast(h, tool) ==
  broadcastToClients(NothingSent, Msg("toolCall", tool, 0, h))

\* the POST handler's notification of a tools/call request of session h:
\* sendToSession(sessionId, {type: 'toolCall', toolName, timestamp})
toolCallNotification(h, tool) ==
  sendToSession(NothingSent, h, Msg("toolCall", tool, 0, h))

\* a lookup that takes any session id for a registered one
hasTransport_anyId(h) == h # Null

\* the POST handler's test `sessionId && transports[sessionId]`
hasTransport(h) == h # Null /\ h \in transports

\* app.post('/mcp'), tools/call request with mcp-session-id header h
\* (Null: no header) up to the await of transport.handleRequest
PostMcpHandler(r, h, tool) ==
  /\ ~isStdioMode
  /\ FreeSlot(r)
  /\ IF hasTransport(h)
     THEN /\ req' = sessionContextRun(
                      [req EXCEPT ![r] = [IdleReq EXCEPT !.pc = "running",
                          !.session = h, !.tool = tool]],
                      r, h)
          /\ sent' = toolCallNotification(h, tool)
          /\ returned' = NothingReturned
     ELSE /\ returned' = [NothingReturned EXCEPT ![r] =
                 Result(IF h # Null THEN "http404" ELSE "http400", NoState,
                        Null, Null, FALSE)]
          /\ sent' = NothingSent
          /\ UNCHANGED req
  /\ UNCHANGED << isStdioMode, transports, connVars, queryVars, cacheVars >>

\* the same, the socket's traffic not followed
PostMcp(r, h, tool) == PostMcpHandler(r, h, tool) /\ UNCHANGED socketVars

\* a tools/call request read from stdin: no sessionContext.run encloses it
StdioToolCall(r, tool) ==
  /\ isStdioMode
  /\ FreeSlot(r)
  /\ req' = [req EXCEPT ![r] = [IdleReq EXCEPT !.pc = "running",
                !.tool = tool]]
  /\ NoOutput
  /\ UNCHANGED << socketVars, isStdioMode, transports, connVars, queryVars, cacheVars >>

\* a handler that routes its command and broadcasts it as well
changeModelSize_twice(r, m) ==
  routeToCurrentSession(routeToCurrentSession(NothingSent, r, m), r, m)

\* the body of a state-mutating tool handler (change_model_size, ...): one
\* routeToCurrentSession call
changeModelSize(r, m) == routeToCurrentSession(NothingSent, r, m)

\* a handler that reports a missing viewer as an error
confirmation_errorWithoutViewer(r) ==
  IF sendToSessionOk(getStore(r))
  THEN Result("ok", NoState, Null, getStore(r), FALSE)
  ELSE Result("error", NoState, "noConnection", getStore(r), FALSE)

\* the handler's return value: the confirmation text, whatever the send did
confirmation(r) == Result("ok", NoState, Null, getStore(r), FALSE)

\* a state-mutating tool handler (change_model_size, ...): one
\* routeToCurrentSession call, then the confirmation text
CommandTool(r) ==
  /\ req[r].pc = "running"
  /\ req[r].tool = "command"
  /\ sent' = changeModelSize(r, Msg("command", Null, 0, req[r].session))
  /\ returned' = [NothingReturned EXCEPT ![r] = confirmation(r)]
  /\ req' = Answered({r})
  /\ UNCHANGED << isStdioMode, transports, connVars, queryVars, cacheVars >>

\* the same, the socket's traffic not followed
CommandToolHandler(r) == CommandTool(r) /\ UNCHANGED socketVars

\* getState without its forceRefresh branch
servedFromCache_ignoringForce(s, force) == sessionStateCache[s] # NoState

\* getState's test for answering from the cache
servedFromCache(s, force) == ~force /\ sessionStateCache[s] # NoState

\* waitForStateResponse without its setTimeout
armTimer_never(rid) == timers

\* waitForStateResponse: setTimeout(..., STATE_QUERY_TIMEOUT) for the entry
armTimer(rid) == timers \cup {rid}

\* a generator that hands out the lowest id no pending query holds
generateRequestId_lowestFree ==
  CHOOSE q \in RequestIds :
    /\ q \notin pendingStateQueries
    /\ \A p \in RequestIds : p < q => p \in pendingStateQueries

\* generateRequestId: randomUUID(), an id not generated before, named by
\* its rank among the ids generated
generateRequestId == nextRid

\* a get_* tool handler with no session in its context: isError
GetToolNoSession(r, force) ==
  /\ req[r].pc = "running"
  /\ req[r].tool = "getState"
  /\ getStore(r) = Null
  /\ returned' = [NothingReturned EXCEPT ![r] =
                    Result("error", NoState, "noSession", Null, force)]
  /\ req' = Answered({r})
  /\ sent' = NothingSent
  /\ UNCHANGED << socketVars, isStdioMode, transports, connVars, queryVars, cacheVars >>

\* a get_* tool handler whose getState(sessionId, false) finds a CacheEntry
GetToolCached(r, force) ==
  /\ req[r].pc = "running"
  /\ req[r].tool = "getState"
  /\ getStore(r) # Null
  /\ servedFromCache(getStore(r), force)
  /\ returned' = [NothingReturned EXCEPT ![r] =
                    Result("cached", sessionStateCache[getStore(r)], Null,
                           getStore(r), force)]
  /\ req' = Answered({r})
  /\ sent' = NothingSent
  /\ UNCHANGED << socketVars, isStdioMode, transports, connVars, queryVars, cacheVars >>

\* queryStateFromBrowser with an open connection for the session: fresh
\* request id, waitForStateResponse (entry and timer), requestState sent
GetToolQuery(r, force) ==
  /\ req[r].pc = "running"
  /\ req[r].tool = "getState"
  /\ getStore(r) # Null
  /\ ~servedFromCache(getStore(r), force)
  /\ sendToSessionOk(getStore(r))
  /\ nextRid <= MaxQueries
  /\ nextRid' = nextRid + 1
  /\ pendingStateQueries' = pendingStateQueries \cup {generateRequestId}
  /\ timers' = armTimer(generateRequestId)
  /\ sent' = sendToSession(NothingSent, getStore(r),
                           Msg("requestState", Null, generateRequestId,
                               req[r].session))
  /\ returned' = NothingReturned
  /\ req' = [req EXCEPT ![r].pc = "waiting", ![r].sid = getStore(r),
                        ![r].force = force, ![r].rid = generateRequestId]
  /\ UNCHANGED << socketVars, isStdioMode, transports, connVars, settleCalls, cacheVars >>

\* queryStateFromBrowser with no open connection for the session, when it
\* leaves the query to its timer
GetToolQueryUnsent(r, force) ==
  /\ req[r].pc = "running"
  /\ req[r].tool = "getState"
  /\ getStore(r) # Null
  /\ ~servedFromCache(getStore(r), force)
  /\ ~sendToSessionOk(getStore(r))
  /\ nextRid <= MaxQueries
  /\ nextRid' = nextRid + 1
  /\ pendingStateQueries' = pendingStateQueries \cup {generateRequestId}
  /\ timers' = armTimer(generateRequestId)
  /\ NoOutput
  /\ req' = [req EXCEPT ![r].pc = "waiting", ![r].sid = getStore(r),
                        ![r].force = force, ![r].rid = generateRequestId]
  /\ UNCHANGED << socketVars, isStdioMode, transports, connVars, settleCalls, cacheVars >>

\* queryStateFromBrowser with no open connection for the session, when it
\* fails at once with a no-connection error
GetToolQueryNoConnection(r, force) ==
  /\ req[r].pc = "running"
  /\ req[r].tool = "getState"
  /\ getStore(r) # Null
  /\ ~servedFromCache(getStore(r), force)
  /\ ~sendToSessionOk(getStore(r))
  /\ returned' = [NothingReturned EXCEPT ![r] =
                    getStateRejected([req[r] EXCEPT !.sid = getStore(r),
                                                      !.force = force],
                                     sessionStateCache, "noConnection")]
  /\ req' = Answered({r})
  /\ sent' = NothingSent
  /\ UNCHANGED << socketVars, isStdioMode, transports, connVars, queryVars, cacheVars >>

\* the fixed session id of STDIO mode, 'stdio-session': one of the ids a
\* browser may register with
STDIO_SESSION_ID == "s1"

\* get_browser_connection_url: the session id it puts into the URL
connectionUrlSession(r) == IF isStdioMode THEN STDIO_SESSION_ID ELSE getStore(r)

\* the get_browser_connection_url handler: isError without a session id,
\* otherwise the text with `${BROWSER_URL}?sessionId=${sessionId}`
GetBrowserConnectionUrl(r) ==
  /\ req[r].pc = "running"
  /\ req[r].tool = "getUrl"
  /\ returned' = [NothingReturned EXCEPT ![r] =
                    IF connectionUrlSession(r) = Null
                    THEN Result("error", NoState, "noSession", Null, FALSE)
                    ELSE Result("url", NoState, Null, connectionUrlSession(r),
                                FALSE)]
  /\ lastUrl' = [lastUrl EXCEPT ![req[r].session] = connectionUrlSession(r)]
  /\ req' = Answered({r})
  /\ sent' = NothingSent
  /\ UNCHANGED << wire, issued, received, clientVars, isStdioMode, transports,
                  connVars, queryVars, cacheVars >>

(* ------------------------ the sockets' traffic ------------------------ *)
\* a socket that puts the newest frame first
transmit_newestFirst(q, frames) == frames \o q

\* ws.send(): the frames reach the socket in the order of the calls, behind
\* the frames not yet received
transmit(q, frames) == q \o frames

\* the routed messages (those of sendToSession calls) the step hands to c
RoutedTo(c) == {i \in 1..Len(sent'[c]) : sent'[c][i].by # Null}

\* the step's routed messages go onto the wire of their connection, each
\* named by the rank of its sendToSession call
Transmit ==
  LET senders == {c \in Conns : RoutedTo(c) # {}}
      ranks(c) == [i \in 1..Cardinality(RoutedTo(c)) |-> issued + i]
  IN /\ wire' = [c \in Conns |->
                   IF c \in senders THEN transmit(wire[c], ranks(c))
                   ELSE wire[c]]
     /\ issued' = IF senders = {} THEN issued ELSE issued + 1
     /\ UNCHANGED << received, clientVars, lastUrl >>

\* app.post('/mcp') with its toolCall notification followed to the browser
PostMcpOnWire(r, h, tool) ==
  /\ issued < MaxSends
  /\ PostMcpHandler(r, h, tool)
  /\ Transmit

\* a state-mutating tool handler with its command followed to the browser
CommandOnWire(r) ==
  /\ issued < MaxSends
  /\ CommandTool(r)
  /\ Transmit

\* the browser's ws.onmessage: the oldest message on the wire arrives
BrowserReceives(c) ==
  /\ readyState[c] \in {"open", "closing"}
  /\ wire[c] # << >>
  /\ received' = [received EXCEPT ![c] = Head(wire[c])]
  /\ wire' = [wire EXCEPT ![c] = Tail(@)]
  /\ NoOutput
  /\ UNCHANGED << issued, clientVars, lastUrl, isStdioMode, transports, connVars, req,
                  queryVars, cacheVars >>

(* --------------------------- the browser page -------------------------- *)
\* the sessionId parameter of the page URL (_setupWebSocket creates no
\* client without one)
urlSessionId == "s1"

\* the frames the server sends to a browser: a toolCall notification, a
\* state-modifying command, a state query
FrameTypes == {"toolCall", "command", "requestState"}

\* this.commandHandlers.get(command.type): toolCall and the state-modifying
\* commands have a handler, requestState has none
commandHandlersHas(type) == type \in {"toolCall", "command"}

\* WebSocketClient.connect(): nothing while connecting or connected,
\* otherwise new WebSocket(wsUrl), the handle being the next one the server
\* accepts
ClientConnect ==
  /\ connectDue
  /\ connectDue' = FALSE
  /\ IF isConnecting \/ clientOpen
     THEN UNCHANGED << clientWs, isConnecting >>
     ELSE /\ \E c \in Conns :
               /\ readyState[c] = "none"
               /\ \A d \in Conns : d < c => readyState[d] # "none"
               /\ clientWs' = c
          /\ isConnecting' = TRUE
  /\ clientSent' = << >>
  /\ handled' = Null
  /\ UNCHANGED << clientOpen, wire, issued, received, lastUrl, isStdioMode, transports,
                  connVars, req, queryVars, cacheVars, sent, returned,
                  retryVars >>

\* wss.on('connection') for the socket the page created
ClientAccepted ==
  /\ clientWs # NoConn
  /\ isConnecting
  /\ WsConnection(clientWs)

\* ws.onopen: the flags and counters of the client are reset; no
\* this.ws.send()
ClientOnOpen ==
  /\ clientWs # NoConn
  /\ isConnecting
  /\ readyState[clientWs] # "none"
  /\ isConnecting' = FALSE
  /\ clientOpen' = TRUE
  /\ clientSent' = << >>
  /\ handled' = Null
  /\ UNCHANGED << clientWs, connectDue, wire, issued, received, lastUrl, isStdioMode,
                  transports, connVars, req, queryVars, cacheVars, sent,
                  returned, retryVars >>

\* ws.onmessage with a frame of the given type: JSON.parse, onCommand,
\* Application._handleWebSocketCommand runs the handler of the type when
\* the map has one and warns otherwise; no this.ws.send()
ClientOnMessage(type) ==
  /\ clientOpen
  /\ handled' = IF commandHandlersHas(type) THEN type ELSE Null
  /\ clientSent' = << >>
  /\ UNCHANGED << clientWs, isConnecting, clientOpen, connectDue, wire, issued,
                  received, lastUrl, isStdioMode, transports, connVars, req, queryVars,
                  cacheVars, sent, returned, retryVars >>

\* ws.onclose after the socket was open: _attemptReconnect sets a timer
\* (or, its attempts used up, the polling interval) that calls connect()
ClientOnClose ==
  /\ clientOpen
  /\ readyState[clientWs] \in {"closing", "closed"}
  /\ clientOpen' = FALSE
  /\ isConnecting' = FALSE
  /\ connectDue' = TRUE
  /\ clientSent' = << >>
  /\ handled' = Null
  /\ UNCHANGED << clientWs, wire, issued, received, lastUrl, isStdioMode, transports,
                  connVars, req, queryVars, cacheVars, sent, returned,
                  retryVars >>

(* --------------- WebSocketClient: connecting and retrying -------------- *)
\* The page runs on one event loop as well: every action is one task (a
\* socket event with its handlers, a timer callback, a call of the page).
\* A WebSocket object is "connecting" when the server is going to accept
\* it and "refused" when its attempt failed and its error and close events
\* are still to come (readyState CONNECTING in both); "open" while the
\* server holds its connection and "dropped" when the server went down
\* and the close event is still to come (OPEN in both); "closing" once
\* close() was called on it or its closing handshake began (CLOSING), the
\* close event still to come; "closed" after that event.  The server
\* closes the sockets of the browsers only by going down.
SockStates ==
  {"none", "connecting", "refused", "open", "dropped", "closing", "closed"}

\* pending setTimeout timers, in all
RECURSIVE SumOver(_, _)
SumOver(f, D) ==
  IF D = {} THEN 0
  ELSE LET d == CHOOSE x \in D : TRUE IN f[d] + SumOver(f, D \ {d})

PendingTimeouts == SumOver(timeouts, Delays)

\* setTimeout(() => this.connect(url), delay)
setTimeout(delay) == timeouts' = [timeouts EXCEPT ![delay] = @ + 1]

\* the WebSocket objects that are not closed
Alive == {k \in Socks : socket[k] \notin {"none", "closed"}}

\* isConnected(): this.ws && this.ws.readyState === WebSocket.OPEN
isConnected == ws # NoSock /\ socket[ws] \in {"open", "dropped"}

\* the guard of connect(): a connect is in progress or the socket is open
connectReturnsEarly == isConnecting \/ isConnected

\* connect(url): nothing when the guard holds; otherwise isConnecting is
\* set and this.ws becomes a new WebSocket, whose attempt the server
\* accepts or not.  (new WebSocket throws for a malformed URL only; the
\* URL is the constant of the page.)
connect ==
  IF connectReturnsEarly
  THEN UNCHANGED << isConnecting, ws, socket >>
  ELSE /\ isConnecting' = TRUE
       /\ \E k \in Socks :
            /\ socket[k] \in {"none", "closed"}
            /\ \A j \in Socks : j < k => socket[j] \notin {"none", "closed"}
            /\ ws' = k
            /\ socket' = [socket EXCEPT
                            ![k] = IF serverUp THEN "connecting" ELSE "refused"]

\* what the retry actions leave alone: the server, and the part of the
\* page that handles the frames
beyondRetry ==
  << isStdioMode, transports, connVars, req, queryVars, cacheVars, sent,
     returned, wire, issued, received, lastUrl, clientWs, clientOpen,
     connectDue, clientSent, handled >>

\* Application._setupWebSocket: this.wsClient.connect(), once
AppConnect ==
  /\ appCalls = "none"
  /\ appCalls' = "connect"
  /\ connect
  /\ UNCHANGED << reconnectAttempts, serverAvailable, pollingMode,
                  pollingInterval, initialConnectionAttempts, timeouts,
                  serverUp, beyondRetry >>

\* ws.onopen of the WebSocket object k
OnOpen(k) ==
  /\ socket[k] = "connecting"
  /\ socket' = [socket EXCEPT ![k] = "open"]
  /\ isConnecting' = FALSE
  /\ reconnectAttempts' = 0
  /\ serverAvailable' = TRUE
  /\ pollingMode' = FALSE
  /\ initialConnectionAttempts' = 0
  /\ pollingInterval' = NoInterval
  /\ UNCHANGED << ws, timeouts, serverUp, appCalls, beyondRetry >>

\* a polling that is started without an interval being set
startPolling_noInterval == pollingInterval

\* _startPolling(url): clearInterval of the interval there is, setInterval
startPolling == pollingDelay

\* _handleInitialConnectionFailure(url, closeEvent).  The counter is only
\* ever compared with maxInitialAttempts: its values from there on are
\* kept as one.
handleInitialConnectionFailure ==
  /\ initialConnectionAttempts' =
       Min(initialConnectionAttempts + 1, maxInitialAttempts)
  /\ IF initialConnectionAttempts + 1 >= maxInitialAttempts
     THEN /\ IF ~pollingMode
             THEN /\ pollingMode' = TRUE
                  /\ pollingInterval' = startPolling
             ELSE UNCHANGED << pollingMode, pollingInterval >>
          /\ UNCHANGED timeouts
     ELSE /\ setTimeout(initialAttemptDelay)
          /\ UNCHANGED << pollingMode, pollingInterval >>
  /\ UNCHANGED << reconnectAttempts, serverAvailable >>

\* _attemptReconnect(url)
attemptReconnect ==
  /\ IF pollingMode
     THEN UNCHANGED << pollingMode, serverAvailable, pollingInterval,
                       reconnectAttempts, timeouts >>
     ELSE IF reconnectAttempts >= maxReconnectAttempts
     THEN /\ pollingMode' = TRUE
          /\ serverAvailable' = FALSE
          /\ pollingInterval' = startPolling
          /\ UNCHANGED << reconnectAttempts, timeouts >>
     ELSE /\ reconnectAttempts' = reconnectAttempts + 1
          /\ setTimeout(reconnectDelayOf(reconnectAttempts + 1))
          /\ UNCHANGED << pollingMode, serverAvailable, pollingInterval >>
  /\ UNCHANGED initialConnectionAttempts

\* the close event of the WebSocket object k, after its error event when
\* its attempt failed: ws.onerror and ws.onclose reset isConnecting, and
\* ws.onclose retries the way serverAvailable tells.
OnClose(k) ==
  /\ socket[k] \in {"refused", "dropped", "closing"}
  /\ socket' = [socket EXCEPT ![k] = "closed"]
  /\ isConnecting' = FALSE
  /\ IF serverAvailable THEN attemptReconnect
     ELSE handleInitialConnectionFailure
  /\ UNCHANGED << ws, serverUp, appCalls, beyondRetry >>

\* the closing handshake of a socket the server is dropping has begun:
\* readyState becomes CLOSING in a task of its own, before the close event
SocketClosing(k) ==
  /\ socket[k] = "dropped"
  /\ socket' = [socket EXCEPT ![k] = "closing"]
  /\ UNCHANGED << ws, isConnecting, reconnectAttempts, serverAvailable,
                  pollingMode, pollingInterval, initialConnectionAttempts,
                  timeouts, serverUp, appCalls, beyondRetry >>

\* the callback of a setTimeout of the given delay: this.connect(url)
TimeoutFires(delay) ==
  /\ timeouts[delay] > 0
  /\ timeouts' = [timeouts EXCEPT ![delay] = @ - 1]
  /\ connect
  /\ UNCHANGED << reconnectAttempts, serverAvailable, pollingMode,
                  pollingInterval, initialConnectionAttempts, serverUp,
                  appCalls, beyondRetry >>

\* the callback of the polling interval.  A timer becomes a socket and a
\* socket a timer, one for one: the ticks alone add to them, and a tick
\* that would take them beyond MaxSockets is left out.
PollingTick ==
  /\ pollingInterval # NoInterval
  /\ IF ~isConnecting /\ ~isConnected
     THEN /\ Cardinality(Alive) + PendingTimeouts < MaxSockets
          /\ connect
     ELSE UNCHANGED << isConnecting, ws, socket >>
  /\ UNCHANGED << reconnectAttempts, serverAvailable, pollingMode,
                  pollingInterval, initialConnectionAttempts, timeouts,
                  serverUp, appCalls, beyondRetry >>

\* this.ws.close(): a socket that is not closed becomes CLOSING, and its
\* close event follows
wsClose(k) ==
  IF socket[k] \in {"connecting", "refused", "open", "dropped"}
  THEN [socket EXCEPT ![k] = "closing"]
  ELSE socket

\* disconnect(), called by the page once connect() was
Disconnect ==
  /\ appCalls = "connect"
  /\ appCalls' = "disconnect"
  /\ socket' = IF ws # NoSock THEN wsClose(ws) ELSE socket
  /\ ws' = NoSock
  /\ pollingInterval' = NoInterval
  /\ reconnectAttempts' = maxReconnectAttempts
  /\ pollingMode' = FALSE
  /\ serverAvailable' = FALSE
  /\ UNCHANGED << isConnecting, initialConnectionAttempts, timeouts,
                  serverUp, beyondRetry >>

\* the WebSocket server comes up
ServerStarts ==
  /\ ~serverUp
  /\ serverUp' = TRUE
  /\ UNCHANGED << ws, socket, isConnecting, reconnectAttempts,
                  serverAvailable, pollingMode, pollingInterval,
                  initialConnectionAttempts, timeouts, appCalls,
                  beyondRetry >>

\* the WebSocket server goes down: the attempts under way fail and the
\* connections it held are lost
ServerStops ==
  /\ serverUp
  /\ serverUp' = FALSE
  /\ socket' = [k \in Socks |->
                  IF socket[k] = "connecting" THEN "refused"
                  ELSE IF socket[k] = "open" THEN "dropped"
                  ELSE socket[k]]
  /\ UNCHANGED << ws, isConnecting, reconnectAttempts, serverAvailable,
                  pollingMode, pollingInterval, initialConnectionAttempts,
                  timeouts, appCalls, beyondRetry >>

(* ------------------------------- Next --------------------------------- *)
\* the connection registry and the command router, in both modes
NextRoute ==
  \/ \E c \in Conns : WsConnection(c)
  \/ \E c \in Conns : WsLeaveOpen(c)
  \/ \E c \in Conns : WsClose(c)
  \/ \E c \in Conns, s \in Sessions : WsRegisterSession(c, s)
  \/ \E c \in Conns : WsOtherMessage(c)
  \/ \E c \in Conns : WsMalformed(c)
  \/ \E s \in Sessions : McpInitialize(s)
  \/ \E s \in Sessions : McpTransportClose(s)
  \/ \E r \in Reqs, h \in Sessions \cup {Null} : PostMcp(r, h, "command")
  \/ \E r \in Reqs, tool \in Tools : StdioToolCall(r, tool)
  \/ \E r \in Reqs : CommandToolHandler(r)
  \/ \E r \in Reqs, f \in BOOLEAN : GetToolNoSession(r, f)

SpecRoute == Init /\ [][NextRoute]_vars

\* the router in HTTP mode, its messages followed to the browsers
NextFifo ==
  \/ \E c \in Conns : WsConnection(c)
  \/ \E c \in Conns : WsLeaveOpen(c)
  \/ \E c \in Conns : WsClose(c)
  \/ \E c \in Conns, s \in Sessions : WsRegisterSession(c, s)
  \/ \E r \in Reqs, h \in Sessions : PostMcpOnWire(r, h, "command")
  \/ \E r \in Reqs : CommandOnWire(r)
  \/ \E c \in Conns : BrowserReceives(c)

\* HTTP mode after the MCP clients of both sessions sent initialize
InitQuery ==
  /\ isStdioMode = FALSE
  /\ transports = Sessions
  /\ readyState = [c \in Conns |-> "none"]
  /\ sessionId = [c \in Conns |-> Null]
  /\ wsClients = [s \in Sessions |-> NoConn]
  /\ req = [r \in Reqs |-> IdleReq]
  /\ pendingStateQueries = {}
  /\ timers = {}
  /\ nextRid = 1
  /\ sessionStateCache = [s \in Sessions |-> NoState]
  /\ sent = NothingSent
  /\ returned = NothingReturned
  /\ settleCalls = [q \in RequestIds |-> 0]
  /\ lastRecorded = [s \in Sessions |-> NoState]
  /\ wire = [c \in Conns |-> << >>]
  /\ issued = 0
  /\ received = [c \in Conns |-> 0]
  /\ ClientInit
  /\ registrant = [s \in Sessions |-> NoConn]
  /\ lastUrl = [h \in Sessions \cup {Null} |-> Null]

SpecFifo == InitQuery /\ [][NextFifo]_vars

\* the tools an MCP client uses to bring a browser in and to drive it
UrlTools == {"command", "getUrl"}

\* the registry, the router and get_browser_connection_url, in both modes
NextUrl ==
  \/ \E c \in Conns : WsConnection(c)
  \/ \E c \in Conns : WsLeaveOpen(c)
  \/ \E c \in Conns : WsClose(c)
  \/ \E c \in Conns, s \in Sessions : WsRegisterSession(c, s)
  \/ \E s \in Sessions : McpInitialize(s)
  \/ \E r \in Reqs, h \in Sessions, tool \in UrlTools : PostMcp(r, h, tool)
  \/ \E r \in Reqs, tool \in UrlTools : StdioToolCall(r, tool)
  \/ \E r \in Reqs : CommandToolHandler(r)
  \/ \E r \in Reqs : GetBrowserConnectionUrl(r)

SpecUrl == Init /\ [][NextUrl]_vars

\* the page of the browser and the server it connects to, in HTTP mode
NextClient ==
  \/ ClientConnect
  \/ ClientAccepted
  \/ ClientOnOpen
  \/ \E type \in FrameTypes : ClientOnMessage(type)
  \/ ClientOnClose
  \/ \E c \in Conns : WsLeaveOpen(c)
  \/ \E c \in Conns : WsClose(c)
  \/ \E r \in Reqs, h \in Sessions : PostMcp(r, h, "command")
  \/ \E r \in Reqs : CommandToolHandler(r)

SpecClient == InitQuery /\ [][NextClient]_vars

\* the state queries of the get_* tools and the browser's answers to them,
\* with the get_* calls in flight held in the request slots rs
QuerySteps(rs) ==
  \/ \E c \in Conns : WsConnection(c)
  \/ \E c \in Conns : WsLeaveOpen(c)
  \/ \E c \in Conns : WsClose(c)
  \/ \E c \in Conns, s \in Sessions : WsRegisterSession(c, s)
  \/ \E c \in Conns, q \in RequestIds, st \in States : WsStateResponse(c, q, st)
  \/ \E c \in Conns, q \in RequestIds : WsStateError(c, q)
  \/ \E q \in RequestIds : StateQueryTimeout(q)
  \/ \E r \in rs, h \in Sessions : PostMcp(r, h, "getState")
  \/ \E r \in rs, f \in BOOLEAN : GetToolCached(r, f)
  \/ \E r \in rs, f \in BOOLEAN : GetToolQuery(r, f)
  \/ \E r \in rs, f \in BOOLEAN : GetToolQueryUnsent(r, f)
  \/ \E r \in rs, f \in BOOLEAN : GetToolQueryNoConnection(r, f)

\* one get_* call after the other, the browsers pushing state updates
NextQuery ==
  \/ QuerySteps(1..NumCalls)
  \/ \E c \in Conns, st \in States \cup {NoState} : WsStateUpdate(c, st)
  \/ \E c \in Conns : WsOtherMessage(c)
  \/ \E c \in Conns : WsMalformed(c)

SpecQuery == InitQuery /\ [][NextQuery]_vars

\* the timer of a pending query fires unless it is cleared first
TimerFairness == \A q \in RequestIds : WF_vars(StateQueryTimeout(q))

SpecQueryFair == SpecQuery /\ TimerFairness

\* the state cache by itself: the browsers push state updates and the
\* get_* tools are answered from the cache
NextCache ==
  \/ \E c \in Conns : WsConnection(c)
  \/ \E c \in Conns : WsLeaveOpen(c)
  \/ \E c \in Conns : WsClose(c)
  \/ \E c \in Conns, s \in Sessions : WsRegisterSession(c, s)
  \/ \E c \in Conns, st \in States \cup {NoState} : WsStateUpdate(c, st)
  \/ \E r \in 1..NumCalls, h \in Sessions : PostMcp(r, h, "getState")
  \/ \E r \in 1..NumCalls, f \in BOOLEAN : GetToolCached(r, f)

SpecCache == InitQuery /\ [][NextCache]_vars

\* the WebSocketClient of one page, its timers, its sockets and the server
\* they connect to
NextRetry ==
  \/ AppConnect
  \/ Disconnect
  \/ \E k \in Socks : OnOpen(k)
  \/ \E k \in Socks : OnClose(k)
  \/ \E k \in Socks : SocketClosing(k)
  \/ \E d \in Delays : TimeoutFires(d)
  \/ PollingTick
  \/ ServerStarts
  \/ ServerStops

SpecRetry == Init /\ [][NextRetry]_vars

\* the page's call of connect() is made, the timers and the interval the
\* client has set run, and the events of its sockets are dispatched
RetryFairness ==
  /\ WF_vars(AppConnect)
  /\ WF_vars(PollingTick)
  /\ \A d \in Delays : WF_vars(TimeoutFires(d))
  /\ \A k \in Socks : WF_vars(OnOpen(k))
  /\ \A k \in Socks : WF_vars(OnClose(k))

SpecRetryFair == SpecRetry /\ RetryFairness

\* get_* calls of several MCP requests in flight together
NextConcurrent == QuerySteps(Reqs)

SpecConcurrent == InitQuery /\ [][NextConcurrent]_vars

(* ------------------- session routing (SpecRoute) ---------------------- *)
\* the messages the callback that ran last sent to connection c
SentTo(c) == {sent[c][i] : i \in 1..Len(sent[c])}

\* C1: in HTTP mode every message emitted by the handlers of an MCP request
\* of session S (the toolCall notification, the command) goes to the
\* connection registered under S in wsClients and to no other connection.
C1_CommandsReachOnlyOwnSession ==
  ~isStdioMode =>
    \A c \in Conns : \A m \in SentTo(c) :
      m.by # Null => wsClients[m.by] = c

\* C1 witness: a command of s1 was delivered to the connection of s1 while
\* another open connection is registered under s2
C1_Witness ==
  /\ ~isStdioMode
  /\ \E c, d \in Conns :
       /\ c # d
       /\ \E m \in SentTo(c) : m.type = "command" /\ m.by = "s1"
       /\ wsClients["s1"] = c
       /\ wsClients["s2"] = d
       /\ readyState[d] = "open"

\* C2: while a request of session S is in flight (between sessionContext.run
\* and its answer, across the awaits in between), getStore() in its context
\* yields S, whatever other requests arrived meanwhile.
C2_StoreIsOwnSession ==
  ~isStdioMode =>
    \A r \in Reqs : req[r].pc # "idle" => getStore(r) = req[r].session

\* C2 witness: two requests of different sessions are suspended together
C2_Witness ==
  /\ req[1].pc = "running"
  /\ req[2].pc = "running"
  /\ req[1].session = "s2"
  /\ req[2].session = "s1"
  /\ getStore(1) = "s2"

\* session s has no connection that is registered and OPEN
NoOpenConnection(s) ==
  wsClients[s] = NoConn \/ readyState[wsClients[s]] # "open"

\* C10: a sendToSession(S, cmd) call for a session S without an open
\* registered connection sends nothing, leaves the registry alone and lets
\* its caller go on: the tool handler returns its confirmation, the POST
\* handler goes on to handle the request.
C10_SendWithoutConnection ==
  [][\A r \in Reqs :
       /\ ( /\ req[r].pc = "running"
            /\ req[r].tool = "command"
            /\ req'[r].pc = "idle"
            /\ req[r].store \in Sessions
            /\ NoOpenConnection(req[r].store) )
          => ( /\ sent' = NothingSent
               /\ returned'[r].kind = "ok"
               /\ wsClients' = wsClients
               /\ readyState' = readyState )
       /\ ( /\ req[r].pc = "idle"
            /\ req'[r].pc = "running"
            /\ req'[r].session \in Sessions
            /\ NoOpenConnection(req'[r].session) )
          => ( /\ sent' = NothingSent
               /\ wsClients' = wsClients
               /\ readyState' = readyState )
    ]_vars

\* C10 witness: a command for a session whose registered socket is no longer
\* OPEN was answered with the confirmation and nothing was sent
C10_Witness ==
  \E r \in Reqs :
    /\ returned[r].kind = "ok"
    /\ returned[r].sid \in Sessions
    /\ wsClients[returned[r].sid] # NoConn
    /\ readyState[wsClients[returned[r].sid]] = "closing"
    /\ sent = NothingSent

(* ---------------- pending state queries (SpecQuery) -------------------- *)
\* the step answers request r
Answers(r) == req[r].pc # "idle" /\ req'[r].pc = "idle"

\* the step is the arrival of a stateResponse or stateError with request id q
AnswerArrives(q) ==
  \E c \in Conns :
    \/ \E st \in States : WsStateResponse(c, q, st)
    \/ WsStateError(c, q)

\* C3: a pending query is completed at most once.  The step that completes
\* it (a stateResponse or stateError with its id, its timer, a connection
\* closing) finds its entry in the table, removes it, cancels its timer and
\* answers the getState call waiting for it; an entry and its timer exist
\* together and only for a query not yet completed; a stateResponse or
\* stateError arriving for a completed query changes nothing.
C3_CompletedExactlyOnce ==
  [][\A q \in RequestIds :
       /\ settleCalls'[q] <= 1
       /\ q \in pendingStateQueries' <=> q \in timers'
       /\ q \in pendingStateQueries' => settleCalls'[q] = 0
       /\ settleCalls'[q] # settleCalls[q] =>
            /\ q \in pendingStateQueries
            /\ q \notin pendingStateQueries'
            /\ q \notin timers'
            /\ \E r \in Reqs :
                 req[r].pc = "waiting" /\ req[r].rid = q /\ Answers(r)
       /\ (settleCalls[q] = 1 /\ AnswerArrives(q)) =>
            /\ returned' = NothingReturned
            /\ UNCHANGED << req, queryVars, cacheVars >>
    ]_vars

\* C3 witness: both queries of the run are completed, the second by its
\* timer, and no entry or timer is left
C3_Witness ==
  /\ settleCalls[1] = 1
  /\ settleCalls[2] = 1
  /\ pendingStateQueries = {}
  /\ timers = {}
  /\ \E r \in Reqs : returned[r].kind = "error" /\ returned[r].err = "timeout"

\* C4: a stateResponse or stateError with request id q completes the query
\* created with q and no other: it answers only the getState call waiting
\* for q and removes no other entry, whatever else is pending.
C4_NoCrossResolve ==
  [][\A q \in RequestIds :
       AnswerArrives(q) =>
         /\ \A r \in Reqs : Answers(r) => req[r].rid = q
         /\ pendingStateQueries \ pendingStateQueries' \subseteq {q}
         /\ \A p \in RequestIds \ {q} : settleCalls'[p] = settleCalls[p]
    ]_vars

\* C4 witness: with the queries of two sessions pending together, the one
\* issued later was answered by its stateResponse and the other still waits
C4_Witness ==
  \E r, p \in Reqs :
    /\ returned[r].kind = "live"
    /\ req[p].pc = "waiting"
    /\ req[p].rid = 1
    /\ req[p].rid \in pendingStateQueries
    /\ req[p].sid # returned[r].sid
    /\ settleCalls[2] = 1

(* --------------------- the getState contract -------------------------- *)
\* the step runs the get_* tool handler of request r up to its answer or
\* to the await of its live query, with forceRefresh = f
RunsGetState(r, f) ==
  /\ req[r].pc = "running"
  /\ req[r].tool = "getState"
  /\ getStore(r) \in Sessions
  /\ \/ req'[r].pc = "waiting" /\ req'[r].force = f
     \/ req'[r].pc = "idle" /\ returned'[r].force = f

\* the messages the step hands to connection c
SentToConn(c) == {sent'[c][i] : i \in 1..Len(sent'[c])}

\* the messages the step hands to the connection registered for session s
SentToSession(s) ==
  IF wsClients[s] = NoConn THEN {}
  ELSE {sent'[wsClients[s]][i] : i \in 1..Len(sent'[wsClients[s]])}

\* C5: getState(S, false) with a CacheEntry for S answers in the same step
\* with the state most recently recorded for S (by a stateUpdate of S's
\* connection or by the stateResponse that completed a query for S), sends
\* no message and creates no pending query.
C5_CachedAnswerWithoutQuery ==
  [][\A r \in Reqs :
       (RunsGetState(r, FALSE) /\ sessionStateCache[getStore(r)] # NoState) =>
         /\ req'[r].pc = "idle"
         /\ returned'[r].kind = "cached"
         /\ returned'[r].val = lastRecorded[getStore(r)]
         /\ returned'[r].sid = getStore(r)
         /\ sent' = NothingSent
         /\ UNCHANGED queryVars
    ]_vars

\* C5 witness: a get_* call was answered from the cache, with the second of
\* two states the browser pushed, while the session's connection is open
C5_Witness ==
  \E r \in Reqs :
    /\ returned[r].kind = "cached"
    /\ ~returned[r].force
    /\ returned[r].val = 2
    /\ sendToSessionOk(returned[r].sid)

\* C6: getState(S, true) never answers from the cache: with an open
\* connection for S it sends requestState with a fresh request id and
\* waits, a CacheEntry for S notwithstanding; and when the stateResponse
\* with that id completes the call, the call returns the state of the
\* stateResponse and the CacheEntry of S holds that state.
C6_ForcedQueryIsLive ==
  [][\A r \in Reqs :
       /\ RunsGetState(r, TRUE) =>
            /\ returned'[r].kind # "cached"
            /\ sendToSessionOk(getStore(r)) =>
                 /\ req'[r].pc = "waiting"
                 /\ req'[r].rid \in pendingStateQueries' \ pendingStateQueries
                 /\ \E m \in SentToSession(getStore(r)) :
                      m.type = "requestState" /\ m.num = req'[r].rid
       /\ \A c \in Conns, st \in States :
            ( /\ req[r].pc = "waiting"
              /\ req[r].force
              /\ WsStateResponse(c, req[r].rid, st)
              /\ Answers(r) ) =>
              /\ returned'[r].kind = "live"
              /\ returned'[r].val = st
              /\ sessionStateCache'[req[r].sid] = st
    ]_vars

\* C6 witness: a forced call, the second query of the run, was completed by
\* a stateResponse and the cache holds the state it carried
C6_Witness ==
  \E r \in Reqs :
    /\ returned[r].kind = "live"
    /\ returned[r].force
    /\ returned[r].val = 2
    /\ sessionStateCache[returned[r].sid] = 2
    /\ settleCalls[1] = 1
    /\ settleCalls[2] = 1

Closes(c) == readyState[c] = "closing" /\ readyState'[c] = "closed"

\* C8: when the connection registered for session S closes while a getState
\* call for S waits for its live query, the close handling itself rejects
\* the query with the disconnect error, which the call returns, and the
\* CacheEntry of S is gone afterwards.
C8_CloseRejectsAndClearsCache ==
  [][\A c \in Conns, r \in Reqs :
       ( /\ Closes(c)
         /\ req[r].pc = "waiting"
         /\ wsClients[req[r].sid] = c ) =>
         /\ Answers(r)
         /\ returned'[r].kind = "error"
         /\ returned'[r].err = "disconnected"
         /\ sessionStateCache'[req[r].sid] = NoState
    ]_vars

\* C9: a getState call suspended on the live query with request id q is
\* eventually answered, the query completed, provided only that an armed
\* timer fires.
C9_SuspendedCallIsAnswered ==
  \A r \in Reqs, q \in RequestIds :
    (req[r].pc = "waiting" /\ req[r].rid = q)
      ~> (req[r].rid # q /\ settleCalls[q] = 1)

\* C9 witness: a query sent to an open connection that stayed open and
\* never answered ended with the timeout error
C9_Witness ==
  \E r \in Reqs :
    /\ returned[r].kind = "error"
    /\ returned[r].err = "timeout"
    /\ sendToSessionOk(returned[r].sid)
    /\ \A c \in Conns : readyState[c] \in {"none", "open"}

(* ------------------------ registry, late answers ----------------------- *)
\* the connections the registry holds for session s
Lookup(s) == {c \in Conns : wsClients[s] = c}

\* C11: the registry holds at most one connection per session id, and
\* after a registerSession{S} of connection c it holds c for S, whichever
\* connection registered S before.
C11_LastRegistrationWins ==
  /\ \A s \in Sessions : Cardinality(Lookup(s)) <= 1
  /\ \A c \in Conns : \A m \in SentTo(c) :
       m.type = "sessionRegistered" => Lookup(m.str) = {c}

\* C11 witness: connection 2 registered s1 after connection 1 did, both
\* are open, and the registry holds connection 2
C11_Witness ==
  /\ sessionId[1] = "s1"
  /\ readyState[1] = "open"
  /\ readyState[2] = "open"
  /\ \E m \in SentTo(2) : m.type = "sessionRegistered" /\ m.str = "s1"
  /\ wsClients["s1"] = 2

\* the query with request id q is over, or no query was issued with q
NotPending(q) ==
  q \notin pendingStateQueries \/ settleCalls[q] >= 1 \/ q >= nextRid

\* C12: a stateResponse or stateError whose request id belongs to no
\* pending query (completed, timed out, never issued) is discarded: it
\* answers no getState call, settles nothing, leaves the table, the timers
\* and the cache as they are and the connection open.
C12_LateAnswerIsDiscarded ==
  [][\A q \in RequestIds :
       (NotPending(q) /\ AnswerArrives(q)) =>
         /\ returned' = NothingReturned
         /\ UNCHANGED << req, queryVars, cacheVars, connVars >>
    ]_vars

\* C12 witness: the first query is completed, a connection is open
\* and registered, and a second query is pending when an answer to the
\* first may arrive
C12_Witness ==
  /\ settleCalls[1] = 1
  /\ pendingStateQueries = {2}
  /\ \E r \in Reqs : req[r].pc = "waiting" /\ req[r].rid = 2
                     /\ sendToSessionOk(req[r].sid)
  /\ sent = NothingSent
  /\ returned = NothingReturned

(* ----------------------- failures of a live query ---------------------- *)
\* the results that carry a state
StateResults == {"live", "cached", "fallback"}

\* C13: getState(S, false) for a session S with no registered connection
\* and no CacheEntry sends nothing and either fails at once with the
\* no-connection error or waits on a query whose timer is armed; and no
\* call ever returns an empty state: a result is a state a browser
\* reported or an error with its message.
C13_NoConnectionNoCacheFails ==
  [][\A r \in Reqs :
       /\ ( /\ RunsGetState(r, FALSE)
            /\ wsClients[getStore(r)] = NoConn
            /\ sessionStateCache[getStore(r)] = NoState ) =>
            /\ sent' = NothingSent
            /\ \/ /\ req'[r].pc = "idle"
                  /\ returned'[r].kind = "error"
                  /\ returned'[r].err = "noConnection"
               \/ /\ req'[r].pc = "waiting"
                  /\ req'[r].rid \in pendingStateQueries'
                  /\ req'[r].rid \in timers'
       /\ returned'[r].kind \in StateResults => returned'[r].val \in States
       /\ returned'[r].kind = "error" =>
            /\ returned'[r].val = NoState
            /\ returned'[r].err # Null
    ]_vars

\* C13 witness: a plain call for a session with no connection and no cache
\* ended with the timeout error, the session still without connection
C13_Witness ==
  \E r \in Reqs :
    /\ returned[r].kind = "error"
    /\ returned[r].err = "timeout"
    /\ ~returned[r].force
    /\ wsClients[returned[r].sid] = NoConn
    /\ sessionStateCache[returned[r].sid] = NoState
    /\ \A c \in Conns : readyState[c] = "none"

\* C14: when a stateError{requestId, error} completes a pending query,
\* the getState call that issued the query fails and its caller receives
\* the browser's error text.
C14_BrowserErrorReachesCaller ==
  [][\A c \in Conns, r \in Reqs :
       ( /\ req[r].pc = "waiting"
         /\ WsStateError(c, req[r].rid)
         /\ Answers(r) ) =>
         /\ returned'[r].kind = "error"
         /\ returned'[r].err = BrowserError
    ]_vars

(* ----------------------- state-mutating tools -------------------------- *)
\* the step runs the state-mutating tool handler of request r
RunsCommand(r) ==
  req[r].pc = "running" /\ req[r].tool = "command" /\ req'[r].pc # "running"

\* the command messages the step hands to connection c
CommandsTo(c) == {i \in 1..Len(sent'[c]) : sent'[c][i].type = "command"}

\* C15: a state-mutating tool handler that runs with no session context
\* while a registered connection is open delivers its command to every
\* open registered connection and returns its confirmation.
C15_NoContextBroadcasts ==
  [][\A r \in Reqs :
       ( /\ RunsCommand(r)
         /\ getStore(r) = Null
         /\ \E s \in Sessions : ~NoOpenConnection(s) ) =>
         /\ \A s \in Sessions :
              ~NoOpenConnection(s) => CommandsTo(wsClients[s]) # {}
         /\ returned'[r].kind = "ok"
    ]_vars

\* C15 witness: in STDIO mode a command was answered with no session and
\* an open registered connection received it
C15_Witness ==
  /\ isStdioMode
  /\ \E r \in Reqs : returned[r].kind = "ok" /\ returned[r].sid = Null
  /\ \E c \in Conns : \E m \in SentTo(c) : m.type = "command"

\* C16: a state-mutating tool handler running for session S hands exactly
\* one command to the open connection registered for S (none when there is
\* no such connection), nothing to any other connection, and returns its
\* confirmation in the same step, without suspending.
C16_OneCommandPerCall ==
  [][\A r \in Reqs :
       (RunsCommand(r) /\ getStore(r) \in Sessions) =>
         /\ req'[r].pc = "idle"
         /\ returned'[r].kind = "ok"
         /\ \A c \in Conns :
              Len(sent'[c]) =
                IF ~NoOpenConnection(getStore(r)) /\ wsClients[getStore(r)] = c
                THEN 1 ELSE 0
         /\ \A c \in Conns : Cardinality(CommandsTo(c)) = Len(sent'[c])
    ]_vars

\* C16 witness: a command of s2 was answered, one command went to the
\* connection of s2 and none to the open connection of s1
C16_Witness ==
  \E r \in Reqs, c, d \in Conns :
    /\ returned[r].kind = "ok"
    /\ returned[r].sid = "s2"
    /\ wsClients["s2"] = c
    /\ wsClients["s1"] = d
    /\ c # d
    /\ readyState[d] = "open"
    /\ Len(sent[c]) = 1
    /\ sent[c][1].type = "command"
    /\ sent[d] = << >>

\* C17: a state-mutating tool call whose command has no open connection to
\* go to (none for its session, or none at all without a session) is
\* answered with the confirmation, not with an error.
C17_SoftSuccessWithoutViewer ==
  [][\A r \in Reqs :
       ( /\ RunsCommand(r)
         /\ IF getStore(r) \in Sessions
            THEN NoOpenConnection(getStore(r))
            ELSE \A s \in Sessions : NoOpenConnection(s) ) =>
         /\ req'[r].pc = "idle"
         /\ returned'[r].kind = "ok"
         /\ returned'[r].err = Null
    ]_vars

\* C17 witness: a command for a session no browser ever registered for was
\* answered with the confirmation
C17_Witness ==
  \E r \in Reqs :
    /\ returned[r].kind = "ok"
    /\ returned[r].sid \in Sessions
    /\ wsClients[returned[r].sid] = NoConn
    /\ \A c \in Conns : sessionId[c] # returned[r].sid
    /\ sent = NothingSent

C19_MalformedAlwaysAnswered ==
  [][\A c \in Conns :
       /\ \A s \in Sessions :
            WsRegisterSession(c, s) =>
              sent'[c] = << Msg("sessionRegistered", s, 0, Null) >>
       /\ WsOtherMessage(c) =>
            /\ \E m \in SentToConn(c) : m.type = "error"
            /\ wsClients' = wsClients
    ]_vars

\* C19 amended: registerSession{S} is answered with sessionRegistered{S}
\* and registers its sender for S; a registerSession without session id
\* leaves the registry and the sender's registration alone, and is
\* answered with error when its sender has not registered and with
\* nothing when it has.
C19_MalformedAnsweredIfUnregistered ==
  [][\A c \in Conns :
       /\ \A s \in Sessions :
            WsRegisterSession(c, s) =>
              /\ sent'[c] = << Msg("sessionRegistered", s, 0, Null) >>
              /\ wsClients'[s] = c
       /\ WsOtherMessage(c) =>
            /\ UNCHANGED connVars
            /\ sessionId[c] = Null => sent'[c] = << Msg("error", Null, 0, Null) >>
            /\ sessionId[c] # Null => sent' = NothingSent
    ]_vars

\* C19 witness: an open connection that has not registered was answered
\* with error while the other connection is registered
C19_Witness ==
  \E c, d \in Conns :
    /\ c # d
    /\ sessionId[c] = Null
    /\ readyState[c] = "open"
    /\ \E m \in SentTo(c) : m.type = "error"
    /\ sessionId[d] # Null
    /\ wsClients[sessionId[d]] = d

\* C20: a message that does not parse, or lacks the fields its type needs
\* (no session id, no state), changes neither the registry, the pending
\* queries, the cache nor any request; its connection stays open and keeps
\* its registration.
C20_MalformedIsDropped ==
  [][\A c \in Conns :
       (WsMalformed(c) \/ WsOtherMessage(c) \/ WsStateUpdate(c, NoState)) =>
         /\ UNCHANGED << connVars, queryVars, cacheVars, req >>
         /\ returned' = NothingReturned
         /\ readyState'[c] = "open"
    ]_vars

\* C20 witness: a message of an unregistered connection was dropped (and
\* answered with error) while a query is pending and a state is cached
C20_Witness ==
  /\ \E c \in Conns :
       /\ sessionId[c] = Null
       /\ readyState[c] = "open"
       /\ \E m \in SentTo(c) : m.type = "error"
  /\ pendingStateQueries # {}
  /\ \E s \in Sessions : sessionStateCache[s] # NoState

(* --------------------------- the browser page -------------------------- *)
\* C21: on every WebSocket open, the first and each reconnect, the client
\* sends registerSession with the session id of the page URL as its first
\* message.
C21_RegistersOnEveryOpen ==
  [][(~clientOpen /\ clientOpen') =>
       /\ Len(clientSent') >= 1
       /\ clientSent'[1] = Msg("registerSession", urlSessionId, 0, Null)
    ]_vars

\* C22: after the Application applied a state-modifying command it pushes
\* exactly one stateUpdate, and it pushes none for a toolCall notification
\* or a state query.
C22_OneStateUpdatePerCommand ==
  [][\A type \in FrameTypes :
       ClientOnMessage(type) =>
         Len(clientSent') = IF type = "command" THEN 1 ELSE 0
    ]_vars

(* ------------------------- the connection URL -------------------------- *)
\* the step runs the get_browser_connection_url handler of request r
RunsUrl(r) ==
  req[r].pc = "running" /\ req[r].tool = "getUrl" /\ req'[r].pc = "idle"

\* C23: get_browser_connection_url returns isError when no session id is
\* available and a URL with a session id otherwise; and the connection
\* that registered last with the id of the URL an MCP client was given
\* receives, while it is open, every command that client issues.
C23_UrlSessionReceivesCommands ==
  [][\A r \in Reqs :
       /\ RunsUrl(r) =>
            IF ~isStdioMode /\ getStore(r) = Null
            THEN returned'[r].kind = "error"
            ELSE returned'[r].kind = "url" /\ returned'[r].sid \in Sessions
       /\ (RunsCommand(r) /\ lastUrl[req[r].session] \in Sessions) =>
            \A c \in Conns :
              ( /\ readyState[c] = "open"
                /\ registrant[lastUrl[req[r].session]] = c ) =>
                CommandsTo(c) # {}
    ]_vars

(* ---------------------- superseded connections ------------------------ *)
\* C27: once connection c1, registered under S, has been superseded by a
\* registerSession{S} of connection c2, the close of c1 leaves the mapping
\* of S alone: the registry keeps c2 for S.
C27_SupersededCloseKeepsMapping ==
  [][\A c1, c2 \in Conns, s \in Sessions :
       ( /\ Closes(c1)
         /\ c2 # c1
         /\ sessionId[c1] = s
         /\ wsClients[s] = c2 ) =>
         wsClients'[s] = c2
    ]_vars

(* ----------------------------- request ids ---------------------------- *)
\* C24: at most one getState call waits on a request id, every pending
\* entry belongs to such a call, and the id generated for a new query is
\* the id of no pending query and of no query completed earlier.
C24_RequestIdsAreFresh ==
  [][/\ \A q \in pendingStateQueries' : Cardinality(Awaiting({q})') = 1
     /\ \A r \in Reqs :
          (req[r].pc = "running" /\ req'[r].pc = "waiting") =>
            /\ req'[r].rid \notin pendingStateQueries
            /\ settleCalls[req'[r].rid] = 0
            /\ \A p \in Reqs \ {r} : req[p].rid # req'[r].rid
    ]_vars

\* C24 witness: the request slot whose first query was completed waits on
\* the query generated next, which has another id
C24_Witness ==
  /\ settleCalls[1] = 1
  /\ pendingStateQueries = {2}
  /\ req[1].pc = "waiting"
  /\ req[1].rid = 2

(* ------------------------------ broadcast ------------------------------ *)
\* C25: a broadcast (a state-mutating tool handler running in STDIO mode
\* with no session context) hands its command exactly once to every
\* registered connection that is open, nothing to any other connection,
\* and leaves the registry alone.
C25_BroadcastExactlyOnce ==
  [][\A r \in Reqs :
       (RunsCommand(r) /\ isStdioMode /\ getStore(r) = Null) =>
         /\ \A c \in Conns :
              Len(sent'[c]) =
                IF readyState[c] = "open" /\ \E s \in Sessions : wsClients[s] = c
                THEN 1 ELSE 0
         /\ wsClients' = wsClients
    ]_vars

(* ----------------------- the frame of a close -------------------------- *)
\* C26: the close of the connection of session S leaves the pending
\* queries of the other sessions alone: their getState calls keep waiting,
\* their entries stay in the table with their timers armed, and no other
\* session's CacheEntry is removed.
C26_CloseRejectsOnlyOwnQueries ==
  [][\A c \in Conns :
       Closes(c) =>
         /\ \A r \in Reqs :
              ( /\ req[r].pc = "waiting"
                /\ req[r].sid # sessionId[c]
                /\ wsClients[req[r].sid] # c ) =>
                /\ req'[r] = req[r]
                /\ req[r].rid \in pendingStateQueries'
                /\ req[r].rid \in timers'
         /\ \A s \in Sessions :
              (s # sessionId[c] /\ wsClients[s] # c) =>
                sessionStateCache'[s] = sessionStateCache[s]
    ]_vars

(* ---------------------- the cache and the registry --------------------- *)
\* a connection that has not closed is registered under session s
LiveRegistration(s) ==
  wsClients[s] # NoConn /\ readyState[wsClients[s]] # "closed"

\* C28: a CacheEntry exists for session S only while a connection that has
\* not closed is registered under S, and no getState call is answered from
\* the cache of a session whose connection has closed.
C28_CacheOnlyForLiveSession ==
  /\ \A s \in Sessions :
       sessionStateCache[s] # NoState => LiveRegistration(s)
  /\ \A r \in Reqs :
       returned[r].kind \in {"cached", "fallback"} =>
         LiveRegistration(returned[r].sid)

\* C29: no entry of the registry refers to a connection that has closed,
\* whatever registerSession messages the connection sent while open.
C29_NoEntryForClosedConnection ==
  \A s \in Sessions :
    wsClients[s] # NoConn => readyState[wsClients[s]] # "closed"

C31_TableHoldsOnlySuspendedCalls ==
  /\ \A q \in pendingStateQueries :
       \E r \in Reqs : req[r].pc = "waiting" /\ req[r].rid = q
  /\ timers \subseteq pendingStateQueries
  /\ \A q \in RequestIds :
       settleCalls[q] >= 1 => q \notin pendingStateQueries /\ q \notin timers
  /\ (\A r \in Reqs : req[r].pc # "waiting") =>
       pendingStateQueries = {} /\ timers = {}

\* C31 witness: both queries of the run are completed, the last one, for a
\* session with no connection, by its timer, and the table is empty
C31_Witness ==
  /\ \E r \in Reqs :
       /\ returned[r].err = "timeout"
       /\ wsClients[returned[r].sid] = NoConn
  /\ settleCalls[1] = 1
  /\ settleCalls[2] = 1
  /\ \A r \in Reqs : req[r].pc # "waiting"
  /\ pendingStateQueries = {}

(* ------------------------ the MCP POST handler ------------------------ *)
\* C32: a tools/call POST request runs a tool handler only when its
\* session id has a registered transport; with an unknown session id it is
\* answered 404, with none 400, and then no transport is created, no
\* request context is set up and nothing is sent to any browser.
C32_UnknownSessionIsRefused ==
  [][\A r \in Reqs, h \in Sessions \cup {Null} :
       PostMcp(r, h, "command") =>
         IF h \in transports
         THEN /\ req'[r].pc = "running"
              /\ req'[r].session = h
              /\ returned' = NothingReturned
         ELSE /\ returned'[r].kind = IF h = Null THEN "http400" ELSE "http404"
              /\ transports' = transports
              /\ req' = req
              /\ sent' = NothingSent
    ]_vars

\* C32 witness: a request was answered 404 while s1 has a transport and an
\* open connection is registered under s2, which has none
C32_Witness ==
  /\ transports = {"s1"}
  /\ sendToSessionOk("s2")
  /\ \E r \in Reqs : returned[r].kind = "http404"
  /\ sent = NothingSent

\* the toolCall messages the step hands to connection c
ToolCallsTo(c) == {i \in 1..Len(sent'[c]) : sent'[c][i].type = "toolCall"}

\* C33: the step that takes up a tools/call request of session S hands one
\* toolCall notification to the open connection registered under S and
\* nothing to any other connection, before the tool handler of the request
\* has run; the step of the tool handler, which comes later, hands out the
\* command and no notification.
C33_NotificationBeforeCommand ==
  [][\A r \in Reqs :
       /\ \A h \in Sessions :
            (PostMcp(r, h, "command") /\ h \in transports) =>
              /\ req'[r].pc = "running"
              /\ returned' = NothingReturned
              /\ \A c \in Conns :
                   /\ CommandsTo(c) = {}
                   /\ Len(sent'[c]) =
                        IF wsClients[h] = c /\ readyState[c] = "open"
                        THEN 1 ELSE 0
                   /\ Cardinality(ToolCallsTo(c)) = Len(sent'[c])
                   /\ \A i \in ToolCallsTo(c) : sent'[c][i].by = h
       /\ RunsCommand(r) =>
            /\ req[r].pc = "running"
            /\ \A c \in Conns : ToolCallsTo(c) = {}
    ]_vars

\* C33 witness: a request of s1 was taken up and its notification went to
\* the connection of s1, none to the open connection of s2
C33_Witness ==
  \E r \in Reqs, c, d \in Conns :
    /\ c # d
    /\ req[r].pc = "running"
    /\ req[r].session = "s1"
    /\ wsClients["s1"] = c
    /\ wsClients["s2"] = d
    /\ readyState[d] = "open"
    /\ sent[c] = << Msg("toolCall", "command", 0, "s1") >>
    /\ sent[d] = << >>

(* ----------------------- no client-to-client path --------------------- *)
\* C34: the handling of a message received from a browser connection
\* (registerSession, any other message, a message that does not parse)
\* hands nothing to any connection but the sender.
C34_InboundIsNeverForwarded ==
  [][\A c \in Conns :
       ( \/ \E s \in Sessions : WsRegisterSession(c, s)
         \/ WsOtherMessage(c)
         \/ WsMalformed(c) ) =>
         \A d \in Conns \ {c} : sent'[d] = << >>
    ]_vars

\* C34 witness: a registered connection is open beside the sender of a
\* message, which got its reply, and was handed nothing
C34_Witness ==
  \E c, d \in Conns :
    /\ c # d
    /\ Len(sent[c]) = 1
    /\ sent[c][1].type \in {"sessionRegistered", "error"}
    /\ readyState[d] = "open"
    /\ sessionId[d] # Null
    /\ wsClients[sessionId[d]] = d
    /\ sessionId[d] # sessionId[c]
    /\ sent[d] = << >>

(* ------------------ WebSocketClient: the retry logic ------------------ *)
\* a step in which a new WebSocket is created
CreatesSocket ==
  \E k \in Socks :
    /\ socket[k] \notin {"connecting", "refused"}
    /\ socket'[k] \in {"connecting", "refused"}

\* C35: once disconnect() was called, no step of the client (the close
\* event of the socket it closed, a timer set before, a polling tick)
\* creates a new WebSocket.
C35_NoConnectAfterDisconnect ==
  [][appCalls = "disconnect" => ~CreatesSocket]_vars

\* C37: whatever the order of the timers, the polling ticks and the socket
\* events of a client left to itself (no disconnect()), at most one of its
\* WebSocket objects has a connection attempt under way or is open.
C37_OneSocketAtATime ==
  appCalls # "disconnect" =>
    Cardinality({k \in Socks :
                   socket[k] \in {"connecting", "refused", "open", "dropped"}}) <= 1

\* C36: whatever state the retry logic is in (quick attempts, reconnection,
\* polling), a client whose server accepts connections gets connected to
\* it (this.ws is a socket the server holds), unless the server goes down
\* again or the page calls disconnect().
C36_EventuallyConnected ==
  (serverUp /\ appCalls = "connect")
    ~> ( \/ ws # NoSock /\ socket[ws] = "open"
         \/ ~serverUp
         \/ appCalls = "disconnect" )

\* C36 witness: the quick attempts are used up and the client polls; the
\* server is up, a polling tick has made the attempt it is going to accept
C36_Witness ==
  /\ serverUp
  /\ appCalls = "connect"
  /\ pollingMode
  /\ initialConnectionAttempts = maxInitialAttempts
  /\ isConnecting
  /\ ws # NoSock
  /\ socket[ws] = "connecting"
  /\ Alive = {ws}
  /\ PendingTimeouts = 0

\* a step in which a setTimeout of the given delay is set
SetsTimeout(d) == timeouts'[d] > timeouts[d]

\* C38: the fast retries are bounded.  A quick retry (initialAttemptDelay)
\* is set only while fewer than maxInitialAttempts attempts have failed; a
\* reconnect is set only for an attempt up to maxReconnectAttempts, with
\* the delay reconnectDelay * min(attempt, 5); and once the client is in
\* polling mode it sets no timer any more: it retries through the polling
\* interval alone, which has the period pollingDelay.
C38_FastRetriesAreBounded ==
  /\ [](reconnectAttempts <= maxReconnectAttempts)
  /\ [](pollingMode => pollingInterval = pollingDelay)
  /\ [][ /\ SetsTimeout(initialAttemptDelay) =>
              initialConnectionAttempts' < maxInitialAttempts
         /\ \A d \in Delays \ {initialAttemptDelay} :
              SetsTimeout(d) =>
                /\ reconnectAttempts' = reconnectAttempts + 1
                /\ d = reconnectDelay * Min(reconnectAttempts', 5)
         /\ pollingMode => \A d \in Delays : ~SetsTimeout(d)
       ]_vars

TypeOK ==
  /\ isStdioMode \in BOOLEAN
  /\ transports \subseteq Sessions
  /\ readyState \in [Conns -> ReadyStates]
  /\ sessionId \in [Conns -> Sessions \cup {Null}]
  /\ wsClients \in [Sessions -> Conns \cup {NoConn}]
  /\ pendingStateQueries \subseteq RequestIds
  /\ timers \subseteq RequestIds
  /\ nextRid \in 1..(MaxQueries + 1)
  /\ sessionStateCache \in [Sessions -> States \cup {NoState}]
  /\ issued \in 0..MaxSends
  /\ received \in [Conns -> 0..MaxSends]
  /\ clientWs \in Conns \cup {NoConn}
  /\ isConnecting \in BOOLEAN
  /\ clientOpen \in BOOLEAN
  /\ connectDue \in BOOLEAN
  /\ clientSent = << >>
  /\ handled \in FrameTypes \cup {Null}
  /\ registrant \in [Sessions -> Conns \cup {NoConn}]
  /\ lastUrl \in [Sessions \cup {Null} -> Sessions \cup {Null}]
  /\ ws \in Socks \cup {NoSock}
  /\ socket \in [Socks -> SockStates]
  /\ reconnectAttempts \in 0..maxReconnectAttempts
  /\ serverAvailable \in BOOLEAN
  /\ pollingMode \in BOOLEAN
  /\ pollingInterval \in {NoInterval, pollingDelay}
  /\ initialConnectionAttempts \in 0..maxInitialAttempts
  /\ timeouts \in [Delays -> 0..MaxSockets]
  /\ serverUp \in BOOLEAN
  /\ appCalls \in {"none", "connect", "disconnect"}

====
